---- MODULE Spec2Model ----
(***************************************************************************)
(* A model of app/main.py of codecrafters-shell-python: the redirection    *)
(* parser, the executable resolver with its cache, the builtins, the       *)
(* command executor and the read-eval loop with its stream redirection.    *)
(*                                                                         *)
(* Strings that the code takes apart (tokens, file names, PATH) are        *)
(* sequences of one-character strings, so that startswith, split and       *)
(* slicing are computed as Python computes them.                           *)
(***************************************************************************)
EXTENDS Integers, Sequences, FiniteSets, TLC

\* ------------------------------------------------------------------------
\* Bounds of the model
\* ------------------------------------------------------------------------
\* longest argument list of a line given to the parser alone
MaxParseArgs == 3

\* the most lines the followed file holds before a line appends to it
MaxFileLines == 3

\* ------------------------------------------------------------------------
\* Python values
\* ------------------------------------------------------------------------
\* Python's None where a string is expected: no string of the model is a
\* sequence holding a four-letter element.
None == <<"None">>

\* an absent redirection spec (stdout_info = None); a spec is <<fname, mode>>
NoInfo == <<>>

\* t.startswith(p)
StartsWith(t, p) == Len(t) >= Len(p) /\ SubSeq(t, 1, Len(p)) = p

\* the first index at which sep occurs in t, 0 when it does not occur
FindFirst(t, sep) ==
    LET hits == {k \in 1..Len(t) :
                    /\ k + Len(sep) - 1 <= Len(t)
                    /\ SubSeq(t, k, k + Len(sep) - 1) = sep}
    IN IF hits = {} THEN 0 ELSE CHOOSE k \in hits : \A j \in hits : k <= j

\* t.split(sep, 1)[1], for a t in which sep occurs
SplitRest(t, sep) == SubSeq(t, FindFirst(t, sep) + Len(sep), Len(t))

\* t[n:]
SliceFrom(t, n) == SubSeq(t, n + 1, Len(t))

\* Python's `a or b` on a string a: the empty string is falsy
StrOr(a, b) == IF a # <<>> THEN a ELSE b

\* ------------------------------------------------------------------------
\* parse_redirections
\* ------------------------------------------------------------------------
\* next_token() of the loop body, for the token at (1-based) position i
next_token(tokens, i) == IF i + 1 <= Len(tokens) THEN tokens[i + 1] ELSE None

NotHandled == [handled |-> FALSE, stream |-> "none", fname |-> None,
               mode |-> "none", advance |-> 0]

\* RedirAt with the shorter operators tested first: `>` and `1>` before
\* `>>` and `1>>`, `2>` before `2>>`
RedirAt_shortest_first(tokens, i) ==
    LET t == tokens[i]
        nt == next_token(tokens, i)
        hit(s, rest, m) == [handled |-> TRUE, stream |-> s,
                            fname |-> StrOr(rest, nt), mode |-> m,
                            advance |-> IF rest = <<>> THEN 1 ELSE 0]
    IN  IF StartsWith(t, <<"1", ">">>) \/ StartsWith(t, <<">">>)
          THEN hit("stdout_info", SplitRest(t, <<">">>), "w")
        ELSE IF StartsWith(t, <<"2", ">">>)
          THEN hit("stderr_info", SliceFrom(t, 2), "w")
        ELSE IF StartsWith(t, <<"<">>)
          THEN hit("stdin_info", SliceFrom(t, 1), "r")
        ELSE NotHandled

\* the if/elif chain of the loop body on tokens[i]: which stream's spec is
\* set, its file name and mode, and how many further tokens are consumed
RedirAt(tokens, i) ==
    LET t == tokens[i]
        nt == next_token(tokens, i)
        hit(s, rest, m) == [handled |-> TRUE, stream |-> s,
                            fname |-> StrOr(rest, nt), mode |-> m,
                            advance |-> IF rest = <<>> THEN 1 ELSE 0]
    IN  IF StartsWith(t, <<"1", ">", ">">>) \/ StartsWith(t, <<">", ">">>)
          THEN hit("stdout_info", SplitRest(t, <<">", ">">>), "a")
        ELSE IF StartsWith(t, <<"1", ">">>) \/ StartsWith(t, <<">">>)
          THEN hit("stdout_info", SplitRest(t, <<">">>), "w")
        ELSE IF StartsWith(t, <<"2", ">", ">">>)
          THEN hit("stderr_info", SliceFrom(t, 3), "a")
        ELSE IF StartsWith(t, <<"2", ">">>)
          THEN hit("stderr_info", SliceFrom(t, 2), "w")
        ELSE IF StartsWith(t, <<"<">>)
          THEN hit("stdin_info", SliceFrom(t, 1), "r")
        ELSE IF t \in {<<">">>, <<"1", ">">>}
          THEN [handled |-> TRUE, stream |-> "stdout_info", fname |-> nt,
                mode |-> "w", advance |-> 1]
        ELSE IF t \in {<<">", ">">>, <<"1", ">", ">">>}
          THEN [handled |-> TRUE, stream |-> "stdout_info", fname |-> nt,
                mode |-> "a", advance |-> 1]
        ELSE IF t = <<"2", ">">>
          THEN [handled |-> TRUE, stream |-> "stderr_info", fname |-> nt,
                mode |-> "w", advance |-> 1]
        ELSE IF t = <<"2", ">", ">">>
          THEN [handled |-> TRUE, stream |-> "stderr_info", fname |-> nt,
                mode |-> "a", advance |-> 1]
        ELSE IF t = <<"<">>
          THEN [handled |-> TRUE, stream |-> "stdin_info", fname |-> nt,
                mode |-> "r", advance |-> 1]
        ELSE NotHandled

\* ParseLoop without the skip over a detached file name (i += 1 in place
\* of i += 1 + advance)
RECURSIVE ParseLoop_no_skip(_, _, _)
ParseLoop_no_skip(tokens, i, st) ==
    IF i > Len(tokens) THEN st
    ELSE LET r == RedirAt(tokens, i)
         IN IF r.handled
              THEN ParseLoop_no_skip(tokens, i + 1,
                             [st EXCEPT ![r.stream] = <<r.fname, r.mode>>])
              ELSE ParseLoop_no_skip(tokens, i + 1,
                             [st EXCEPT !.cleaned = Append(@, tokens[i])])

\* ParseLoop that keeps the spec a stream already has (first occurrence
\* wins)
RECURSIVE ParseLoop_first_wins(_, _, _)
ParseLoop_first_wins(tokens, i, st) ==
    IF i > Len(tokens) THEN st
    ELSE LET r == RedirAt(tokens, i)
         IN IF r.handled
              THEN ParseLoop_first_wins(tokens, i + 1 + r.advance,
                             IF st[r.stream] = NoInfo
                               THEN [st EXCEPT ![r.stream] = <<r.fname, r.mode>>]
                               ELSE st)
              ELSE ParseLoop_first_wins(tokens, i + 1,
                             [st EXCEPT !.cleaned = Append(@, tokens[i])])

\* the while loop: st holds cleaned and the three specs, i the position
RECURSIVE ParseLoop(_, _, _)
ParseLoop(tokens, i, st) ==
    IF i > Len(tokens) THEN st
    ELSE LET r == RedirAt(tokens, i)
         IN IF r.handled
              THEN ParseLoop(tokens, i + 1 + r.advance,
                             [st EXCEPT ![r.stream] = <<r.fname, r.mode>>])
              ELSE ParseLoop(tokens, i + 1,
                             [st EXCEPT !.cleaned = Append(@, tokens[i])])

\* info is not None and (info[0] is None or info[0] == "")
BadInfo(info) == info # NoInfo /\ (info[1] = None \/ info[1] = <<>>)

\* the validation loop: the first stream, in the order stdout, stderr, stdin,
\* whose spec has no file name; "none" when every spec is valid
FirstBadStream(st) ==
    IF BadInfo(st.stdout_info) THEN "stdout"
    ELSE IF BadInfo(st.stderr_info) THEN "stderr"
    ELSE IF BadInfo(st.stdin_info) THEN "stdin"
    ELSE "none"

\* parse_redirections(tokens): the returned tuple, and in `printed` the
\* stream named by the diagnostic it prints ("none": nothing printed)
parse_redirections(tokens) ==
    LET st == ParseLoop(tokens, 1,
                 [cleaned |-> <<>>, stdout_info |-> NoInfo,
                  stderr_info |-> NoInfo, stdin_info |-> NoInfo])
        bad == FirstBadStream(st)
    IN IF bad # "none"
         THEN [cleaned |-> st.cleaned, stdout_info |-> NoInfo,
               stderr_info |-> NoInfo, stdin_info |-> NoInfo, printed |-> bad]
         ELSE [cleaned |-> st.cleaned, stdout_info |-> st.stdout_info,
               stderr_info |-> st.stderr_info, stdin_info |-> st.stdin_info,
               printed |-> "none"]

\* ------------------------------------------------------------------------
\* The file system and the environment, as the code observes them
\* ------------------------------------------------------------------------
\* what a path names: "absent", "file" (regular, not executable), "xfile"
\* (regular and executable) or "dir"; a path outside the table is absent
KindOf(fs, p) == IF p \in DOMAIN fs THEN fs[p] ELSE "absent"

\* IsExecutableFile without the os.path.isfile test: a directory, which
\* os.access(p, os.X_OK) accepts, passes
IsExecutableFile_no_isfile(fs, p) ==
    /\ KindOf(fs, p) # "absent"
    /\ KindOf(fs, p) \in {"xfile", "dir"}

\* os.path.exists(p) and os.access(p, os.X_OK) and os.path.isfile(p)
IsExecutableFile(fs, p) ==
    /\ KindOf(fs, p) # "absent"
    /\ KindOf(fs, p) \in {"xfile", "dir"}
    /\ KindOf(fs, p) \in {"file", "xfile"}

\* os.path.isabs(name)
isabs(name) == StartsWith(name, <<"/">>)

\* os.path.join(d, name)
path_join(d, name) ==
    IF isabs(name) THEN name
    ELSE IF d = <<>> \/ d[Len(d)] = "/" THEN d \o name
    ELSE d \o <<"/">> \o name

\* raw.split(os.pathsep)
RECURSIVE SplitOn(_, _)
SplitOn(raw, sep) ==
    LET k == FindFirst(raw, <<sep>>)
    IN IF k = 0 THEN <<raw>>
       ELSE <<SubSeq(raw, 1, k - 1)>> \o SplitOn(SubSeq(raw, k + 1, Len(raw)), sep)

\* get_env(key, default) for a variable whose value is val (None: unset)
get_env(val, default) == IF val # None THEN val ELSE default

\* get_path_dirs(), for the value of PATH in the environment
get_path_dirs(path_env) ==
    LET raw == get_env(path_env, <<>>)
    IN IF raw # <<>> THEN SplitOn(raw, ":") ELSE <<>>

\* ------------------------------------------------------------------------
\* find_executable_in_path
\* ------------------------------------------------------------------------
\* the for loop over the PATH directories from position k on: the candidate
\* returned (None when the loop ends) and the candidates probed on the way
RECURSIVE ScanDirs(_, _, _, _, _)
ScanDirs(dirs, k, name, fs, probed) ==
    IF k > Len(dirs) THEN [path |-> None, probed |-> probed]
    ELSE IF dirs[k] = <<>> THEN ScanDirs(dirs, k + 1, name, fs, probed)
    ELSE LET candidate == path_join(dirs[k], name)
         IN IF IsExecutableFile(fs, candidate)
              THEN [path |-> candidate, probed |-> Append(probed, candidate)]
              ELSE ScanDirs(dirs, k + 1, name, fs, Append(probed, candidate))

\* One call of find_executable_in_path: the name looked up, the value
\* returned, the cache afterwards, the paths probed on the file system and
\* whether the name was in the cache when the call began.
Resolved(name, path, cache, probed, cached) ==
    [name |-> name, path |-> path, cache |-> cache, probed |-> probed,
     cached |-> cached]

\* no call made: the cache stays as it is
NotResolved(cache) == Resolved(None, None, cache, <<>>, FALSE)

\* find_executable_in_path(name) in a process whose cache is `cache`
find_executable_in_path(name, cache, path_env, fs) ==
    IF name \in DOMAIN cache
      THEN Resolved(name, cache[name], cache, <<>>, TRUE)
    ELSE IF isabs(name)
      THEN IF IsExecutableFile(fs, name)
             THEN Resolved(name, name, (name :> name) @@ cache, <<name>>, FALSE)
             ELSE Resolved(name, None, cache, <<name>>, FALSE)
    ELSE LET r == ScanDirs(get_path_dirs(path_env), 1, name, fs, <<>>)
         IN Resolved(name, r.path, (name :> r.path) @@ cache, r.probed, FALSE)

\* ------------------------------------------------------------------------
\* Strings of the model
\* ------------------------------------------------------------------------
ECHO == <<"e", "c", "h", "o">>
EXIT == <<"e", "x", "i", "t">>
TYPE == <<"t", "y", "p", "e">>
PWD  == <<"p", "w", "d">>
CD   == <<"c", "d">>
LS   == <<"l", "s">>
NOPE == <<"n", "o", "p", "e">>

\* the keys of shell_builtins
shell_builtins == {ECHO, EXIT, TYPE, PWD, CD}

\* " ".join(args)
RECURSIVE join_space(_)
join_space(args) ==
    IF args = <<>> THEN <<>>
    ELSE IF Len(args) = 1 THEN args[1]
    ELSE args[1] \o <<" ">> \o join_space(Tail(args))

Digits == <<"0", "1", "2", "3", "4", "5", "6", "7", "8", "9">>

IsDigit(c) == \E d \in 1..Len(Digits) : Digits[d] = c

DigitValue(c) == (CHOOSE d \in 1..Len(Digits) : Digits[d] = c) - 1

RECURSIVE DecimalValue(_, _)
DecimalValue(s, acc) ==
    IF s = <<>> THEN acc
    ELSE DecimalValue(Tail(s), 10 * acc + DigitValue(Head(s)))

\* int(s): ok is FALSE where Python raises ValueError. A sign is accepted;
\* surrounding blanks and underscores, which int() also accepts, are not
\* among the strings of the model.
int(s) ==
    LET signed == s # <<>> /\ Head(s) \in {"-", "+"}
        body == IF signed THEN Tail(s) ELSE s
    IN IF body # <<>> /\ \A k \in 1..Len(body) : IsDigit(body[k])
         THEN [ok |-> TRUE,
               value |-> IF signed /\ Head(s) = "-"
                           THEN 0 - DecimalValue(body, 0)
                           ELSE DecimalValue(body, 0)]
         ELSE [ok |-> FALSE, value |-> 0]

\* ------------------------------------------------------------------------
\* Streams and file objects
\* ------------------------------------------------------------------------
Streams == {"stdin", "stdout", "stderr"}

\* the stream object sys.<s> holds when the interpreter starts
Original(s) == <<"terminal", s>>

OriginalStreams == [s \in Streams |-> Original(s)]

\* the file object of one open(fname, mode) call made for stream s
FileObject(fname, mode, s) == <<"file", fname, mode, s>>

\* one line printed by print(..., file=to): what it says, about what
Printed(kind, arg, to) == [kind |-> kind, arg |-> arg, to |-> to]

NoException == [raised |-> FALSE, code |-> 0, type |-> "none"]

\* sys.exit(code): the SystemExit in flight
SystemExit(code) == [raised |-> TRUE, code |-> code, type |-> "SystemExit"]

\* an exception of a class derived from Exception, raised inside a builtin
Exception(type) == [raised |-> TRUE, code |-> 0, type |-> type]

NoChild == [launched |-> FALSE, path |-> None, argv |-> <<>>,
            stdin |-> Original("stdin"), stdout |-> Original("stdout"),
            stderr |-> Original("stderr")]

\* The standard streams of a child started by subprocess.run([path] + args,
\* text=True): with no stdin=, stdout= or stderr= argument the child inherits
\* the process's file descriptors 0, 1 and 2. Assigning to sys.stdout,
\* sys.stderr or sys.stdin rebinds a Python name and leaves the descriptors
\* alone, and no statement of the program duplicates or closes them.
InheritedStreams(sys) == OriginalStreams

\* ------------------------------------------------------------------------
\* Builtins and execute_command
\* ------------------------------------------------------------------------
\* What running a command does: the lines it prints, the SystemExit it
\* raises, the call of the resolver it made (with the cache afterwards), how
\* execute_command dispatched it and the child process it launched; chdir is
\* the argument of its os.chdir call that succeeded and putenv the value it
\* assigned to os.environ["PWD"], None when it made none.
Effect(out, exc, res, dispatched, child) ==
    [out |-> out, exc |-> exc, res |-> res, dispatched |-> dispatched,
     child |-> child, chdir |-> None, putenv |-> None]

\* builtin_echo(args)
builtin_echo(args, sys, cache) ==
    Effect(<<Printed("echo", join_space(args), sys.stdout)>>,
           NoException, NotResolved(cache), "builtin", NoChild)

\* builtin_exit whose validation errors end in sys.exit(1) instead of return
builtin_exit_errors_exit(args, sys, cache) ==
    IF Len(args) = 0
      THEN Effect(<<>>, SystemExit(0), NotResolved(cache), "builtin", NoChild)
    ELSE IF Len(args) > 1
      THEN Effect(<<Printed("exit_arity", <<>>, sys.stdout)>>,
                  SystemExit(1), NotResolved(cache), "builtin", NoChild)
    ELSE IF ~int(args[1]).ok
      THEN Effect(<<Printed("exit_numeric", args[1], sys.stdout)>>,
                  SystemExit(1), NotResolved(cache), "builtin", NoChild)
    ELSE Effect(<<>>, SystemExit(int(args[1]).value), NotResolved(cache),
                "builtin", NoChild)

\* builtin_exit(args)
builtin_exit(args, sys, cache) ==
    IF Len(args) = 0
      THEN Effect(<<>>, SystemExit(0), NotResolved(cache), "builtin", NoChild)
    ELSE IF Len(args) > 1
      THEN Effect(<<Printed("exit_arity", <<>>, sys.stdout)>>,
                  NoException, NotResolved(cache), "builtin", NoChild)
    ELSE IF ~int(args[1]).ok
      THEN Effect(<<Printed("exit_numeric", args[1], sys.stdout)>>,
                  NoException, NotResolved(cache), "builtin", NoChild)
    ELSE Effect(<<>>, SystemExit(int(args[1]).value), NotResolved(cache),
                "builtin", NoChild)

\* builtin_type without the test for a builtin name: every name is looked
\* up on PATH
builtin_type_path_only(args, sys, cache, path_env, fs) ==
    IF Len(args) # 1
      THEN Effect(<<Printed("type_arity", <<>>, sys.stdout)>>,
                  NoException, NotResolved(cache), "builtin", NoChild)
    ELSE LET r == find_executable_in_path(args[1], cache, path_env, fs)
         IN IF r.path # None /\ r.path # <<>>
              THEN Effect(<<Printed("is_path", r.path, sys.stdout)>>,
                          NoException, r, "builtin", NoChild)
              ELSE Effect(<<Printed("type_not_found", args[1], sys.stdout)>>,
                          NoException, r, "builtin", NoChild)

\* builtin_type that searches PATH itself each time and does not consult
\* the cache
builtin_type_uncached(args, sys, cache, path_env, fs) ==
    IF Len(args) # 1
      THEN Effect(<<Printed("type_arity", <<>>, sys.stdout)>>,
                  NoException, NotResolved(cache), "builtin", NoChild)
    ELSE IF args[1] \in shell_builtins
      THEN Effect(<<Printed("is_builtin", args[1], sys.stdout)>>,
                  NoException, NotResolved(cache), "builtin", NoChild)
    ELSE LET r == find_executable_in_path(args[1], [n \in {} |-> None],
                                          path_env, fs)
         IN IF r.path # None /\ r.path # <<>>
              THEN Effect(<<Printed("is_path", r.path, sys.stdout)>>,
                          NoException, NotResolved(cache), "builtin", NoChild)
              ELSE Effect(<<Printed("type_not_found", args[1], sys.stdout)>>,
                          NoException, NotResolved(cache), "builtin", NoChild)

\* builtin_type(args)
builtin_type(args, sys, cache, path_env, fs) ==
    IF Len(args) # 1
      THEN Effect(<<Printed("type_arity", <<>>, sys.stdout)>>,
                  NoException, NotResolved(cache), "builtin", NoChild)
    ELSE IF args[1] \in shell_builtins
      THEN Effect(<<Printed("is_builtin", args[1], sys.stdout)>>,
                  NoException, NotResolved(cache), "builtin", NoChild)
    ELSE LET r == find_executable_in_path(args[1], cache, path_env, fs)
         IN IF r.path # None /\ r.path # <<>>
              THEN Effect(<<Printed("is_path", r.path, sys.stdout)>>,
                          NoException, r, "builtin", NoChild)
              ELSE Effect(<<Printed("type_not_found", args[1], sys.stdout)>>,
                          NoException, r, "builtin", NoChild)

\* builtin_pwd(args): os.getcwd() raises FileNotFoundError when the working
\* directory has been removed
builtin_pwd(args, sys, cache, cwd, fs) ==
    IF KindOf(fs, cwd) \in {"dir", "lockeddir"}
      THEN Effect(<<Printed("pwd", cwd, sys.stdout)>>,
                  NoException, NotResolved(cache), "builtin", NoChild)
      ELSE Effect(<<>>, Exception("FileNotFoundError"), NotResolved(cache),
                  "builtin", NoChild)

\* the home directory of the user in the password database, which
\* os.path.expanduser reads when HOME is not in the environment
pw_dir == <<"/", "r">>

\* s.rstrip("/")
RECURSIVE rstrip_slash(_)
rstrip_slash(s) ==
    IF s # <<>> /\ s[Len(s)] = "/" THEN rstrip_slash(SubSeq(s, 1, Len(s) - 1))
    ELSE s

\* os.path.expanduser(path): `~` alone or before a slash stands for HOME,
\* or for pw_dir when HOME is unset; `~name` is looked up in the password
\* database, which has no user of the names the model uses, and is returned
\* as it is
expanduser(path, environ) ==
    IF ~StartsWith(path, <<"~">>) THEN path
    ELSE LET k == FindFirst(SliceFrom(path, 1), <<"/">>)
             i == IF k = 0 THEN Len(path) ELSE k
         IN IF i # 1 THEN path
            ELSE LET userhome == rstrip_slash(get_env(environ.HOME, pw_dir))
                     full == userhome \o SliceFrom(path, i)
                 IN IF full # <<>> THEN full ELSE <<"/">>

\* os.chdir(target) raises: the directory may not be searched
chdir_fails(fs, target) == KindOf(fs, target) = "lockeddir"

\* lines 103-106 of builtin_cd: the target with `~` expanded and, when it
\* is not absolute, joined to the working directory
cd_target(first, cwd, environ) ==
    LET expanded == IF StartsWith(first, <<"~">>)
                      THEN expanduser(first, environ) ELSE first
    IN IF ~isabs(expanded) THEN path_join(cwd, expanded) ELSE expanded

\* cd_to with os.environ["PWD"] assigned before the target is tested
cd_to_putenv_first(first, sys, cache, cwd, environ, fs) ==
    LET target == cd_target(first, cwd, environ)
        kind == IF KindOf(fs, target) = "absent" THEN "cd_no_such"
                ELSE IF KindOf(fs, target) \notin {"dir", "lockeddir"}
                  THEN "cd_not_dir"
                ELSE IF chdir_fails(fs, target) THEN "cd_oserror"
                ELSE "none"
    IN [Effect(IF kind = "none" THEN <<>>
               ELSE <<Printed(kind, target, sys.stdout)>>,
               NoException, NotResolved(cache), "builtin", NoChild)
          EXCEPT !.putenv = target,
                 !.chdir = IF kind = "none" THEN target ELSE None]

\* lines 103-118 of builtin_cd, for the target lines 95-101 chose
cd_to(first, sys, cache, cwd, environ, fs) ==
    LET target == cd_target(first, cwd, environ)
    IN IF KindOf(fs, target) = "absent"
         THEN Effect(<<Printed("cd_no_such", target, sys.stdout)>>,
                     NoException, NotResolved(cache), "builtin", NoChild)
       ELSE IF KindOf(fs, target) \notin {"dir", "lockeddir"}
         THEN Effect(<<Printed("cd_not_dir", target, sys.stdout)>>,
                     NoException, NotResolved(cache), "builtin", NoChild)
       ELSE IF chdir_fails(fs, target)
         THEN Effect(<<Printed("cd_oserror", target, sys.stdout)>>,
                     NoException, NotResolved(cache), "builtin", NoChild)
       ELSE [Effect(<<>>, NoException, NotResolved(cache), "builtin", NoChild)
                EXCEPT !.chdir = target, !.putenv = target]

\* builtin_cd(args)
builtin_cd(args, sys, cache, cwd, environ, fs) ==
    IF Len(args) = 0
      THEN cd_to(get_env(environ.HOME, expanduser(<<"~">>, environ)),
                 sys, cache, cwd, environ, fs)
    ELSE IF Len(args) = 1
      THEN cd_to(args[1], sys, cache, cwd, environ, fs)
    ELSE Effect(<<Printed("cd_arity", <<>>, sys.stdout)>>,
                NoException, NotResolved(cache), "builtin", NoChild)

\* shell_builtins[cmd_name](args)
call_builtin(cmd_name, args, sys, cache, path_env, fs, cwd, environ) ==
    IF cmd_name = ECHO THEN builtin_echo(args, sys, cache)
    ELSE IF cmd_name = EXIT THEN builtin_exit(args, sys, cache)
    ELSE IF cmd_name = TYPE THEN builtin_type(args, sys, cache, path_env, fs)
    ELSE IF cmd_name = PWD THEN builtin_pwd(args, sys, cache, cwd, fs)
    ELSE builtin_cd(args, sys, cache, cwd, environ, fs)

\* execute_builtin with SystemExit caught and dropped like any other
\* exception of a builtin
execute_builtin_swallowing(cmd_name, args, sys, cache, path_env, fs, cwd, environ) ==
    [call_builtin(cmd_name, args, sys, cache, path_env, fs, cwd, environ)
        EXCEPT !.exc = NoException]

\* the builtin branch of execute_command: `except SystemExit: raise` hands
\* the exit request on to the caller, `except Exception` prints the error
\* of any other exception to sys.stderr and drops it
execute_builtin(cmd_name, args, sys, cache, path_env, fs, cwd, environ) ==
    LET e == call_builtin(cmd_name, args, sys, cache, path_env, fs, cwd, environ)
    IN IF e.exc.raised /\ e.exc.type # "SystemExit"
         THEN [e EXCEPT !.exc = NoException,
                        !.out = Append(e.out, Printed("builtin_error", cmd_name,
                                                      sys.stderr))]
         ELSE e

\* run_external that forgets the cached path of a command whose launch
\* failed because the file is gone
run_external_evicting(cmd_name, r, args, sys, fs) ==
    IF KindOf(fs, r.path) = "xfile"
      THEN LET std == InheritedStreams(sys)
           IN Effect(<<Printed("child_output", r.path, std.stdout)>>,
                     NoException, r, "external",
                     [launched |-> TRUE, path |-> r.path,
                      argv |-> <<r.path>> \o args,
                      stdin |-> std.stdin, stdout |-> std.stdout,
                      stderr |-> std.stderr])
    ELSE IF KindOf(fs, r.path) = "absent"
      THEN Effect(<<Printed("command_not_found", cmd_name, sys.stdout)>>,
                  NoException,
                  [r EXCEPT !.cache = [n \in DOMAIN r.cache \ {cmd_name} |->
                                          r.cache[n]]],
                  "launch_failed", NoChild)
    ELSE Effect(<<Printed("command_error", cmd_name, sys.stderr)>>,
                NoException, r, "launch_failed", NoChild)

\* subprocess.run([path] + args, text=True) and its except clauses, after
\* the call r of the resolver; a child that runs writes its output to the
\* standard output it was started with
run_external(cmd_name, r, args, sys, fs) ==
    IF KindOf(fs, r.path) = "xfile"
      THEN LET std == InheritedStreams(sys)
           IN Effect(<<Printed("child_output", r.path, std.stdout)>>,
                     NoException, r, "external",
                     [launched |-> TRUE, path |-> r.path,
                      argv |-> <<r.path>> \o args,
                      stdin |-> std.stdin, stdout |-> std.stdout,
                      stderr |-> std.stderr])
    ELSE IF KindOf(fs, r.path) = "absent"
      THEN Effect(<<Printed("command_not_found", cmd_name, sys.stdout)>>,
                  NoException, r, "launch_failed", NoChild)
    ELSE Effect(<<Printed("command_error", cmd_name, sys.stderr)>>,
                NoException, r, "launch_failed", NoChild)

\* execute_command(cmd_name, args)
execute_command(cmd_name, args, sys, cache, path_env, fs, cwd, environ) ==
    IF cmd_name \in shell_builtins
      THEN execute_builtin(cmd_name, args, sys, cache, path_env, fs, cwd,
                           environ)
    ELSE LET r == find_executable_in_path(cmd_name, cache, path_env, fs)
         IN IF r.path = None \/ r.path = <<>>
              THEN Effect(<<Printed("command_not_found", cmd_name, sys.stdout)>>,
                          NoException, r, "not_found", NoChild)
              ELSE run_external(cmd_name, r, args, sys, fs)

\* ------------------------------------------------------------------------
\* Redirection helpers and open()
\* ------------------------------------------------------------------------
\* redirect_stdout_to(fobj), redirect_stderr_to(fobj), redirect_stdin_to(fobj):
\* the context manager, not yet entered
redirect_stdout_to(fobj) == [stream |-> "stdout", fobj |-> fobj]

\* redirect_stderr_to copied from redirect_stdout_to with sys.stdout left in
redirect_stderr_to_stdout(fobj) == [stream |-> "stdout", fobj |-> fobj]

redirect_stderr_to(fobj) == [stream |-> "stderr", fobj |-> fobj]

redirect_stdin_to(fobj) == [stream |-> "stdin", fobj |-> fobj]

\* entering one context manager: orig = sys.<stream>; sys.<stream> = fobj
enter_context(ctx, sys, stack) ==
    [sys |-> [sys EXCEPT ![ctx.stream] = ctx.fobj],
     stack |-> Append(stack, [stream |-> ctx.stream, orig |-> sys[ctx.stream]])]

\* for ctx in contexts: stack.enter_context(ctx)
RECURSIVE enter_all(_, _, _)
enter_all(ctxs, sys, stack) ==
    IF ctxs = <<>> THEN [sys |-> sys, stack |-> stack]
    ELSE LET e == enter_context(Head(ctxs), sys, stack)
         IN enter_all(Tail(ctxs), e.sys, e.stack)

\* ExitStack.__exit__: the finally clauses of the entered context managers,
\* last entered first: sys.<stream> = orig
RECURSIVE exit_all(_, _)
exit_all(stack, sys) ==
    IF stack = <<>> THEN sys
    ELSE LET top == stack[Len(stack)]
         IN exit_all(SubSeq(stack, 1, Len(stack) - 1),
                     [sys EXCEPT ![top.stream] = top.orig])

\* open(fname, mode) succeeds: reading needs a regular file; writing and
\* appending create the file when it is absent and fail on a directory
open_ok(fs, fname, mode) ==
    IF mode = "r" THEN KindOf(fs, fname) \in {"file", "xfile"}
    ELSE KindOf(fs, fname) \in {"absent", "file", "xfile"}

\* the file system after a successful open(fname, mode)
fs_after_open(fs, fname, mode) ==
    IF mode # "r" /\ KindOf(fs, fname) = "absent"
      THEN (fname :> "file") @@ fs
      ELSE fs

\* What open(fname, mode) does to the contents of the files that are
\* followed: mode "w" empties the file
contents_after_open(contents, fname, mode) ==
    IF mode = "w" /\ fname \in DOMAIN contents
      THEN [contents EXCEPT ![fname] = <<>>]
      ELSE contents

\* the lines of out that were written to the stream or file object to
Written(out, to) ==
    LET sel == SelectSeq(out, LAMBDA e : e.to = to)
    IN [k \in 1..Len(sel) |-> [kind |-> sel[k].kind, arg |-> sel[k].arg]]

\* ff.close() for each of files in turn: what was written to a file object
\* that is still open reaches the end of its file
RECURSIVE flush_all(_, _, _, _)
flush_all(files, open, out, contents) ==
    IF files = <<>> THEN contents
    ELSE LET f == Head(files)
             now == IF f \in open /\ f[3] # "r" /\ f[2] \in DOMAIN contents
                      THEN [contents EXCEPT ![f[2]] = @ \o Written(out, f)]
                      ELSE contents
         IN flush_all(Tail(files), open \ {f}, out, now)

\* close_all with only the file opened last closed (f.close() in place of
\* the loop over files_to_close)
close_last_only(files, open) ==
    IF files = <<>> THEN open ELSE open \ {files[Len(files)]}

\* for ff in files_to_close: ff.close()
close_all(files, open) == open \ {files[k] : k \in 1..Len(files)}

\* ------------------------------------------------------------------------
\* shlex.split(line)
\* ------------------------------------------------------------------------
Quotes == {"'", "\""}

\* the token under construction joins the list when it is not empty or
\* was quoted
Emit(acc, tok, quoted) == IF tok # <<>> \/ quoted THEN Append(acc, tok) ELSE acc

\* The lexer of shlex in POSIX mode with whitespace_split and no comment
\* characters: st is its state (" " between tokens, "a" in a word, a quote
\* character inside quotes, "\\" after a backslash), est the state a
\* backslash returns to, tok the token under construction, quoted whether
\* it had a quoted part, acc the tokens read.
LexState(st, est, tok, quoted, acc) ==
    [st |-> st, est |-> est, tok |-> tok, quoted |-> quoted, acc |-> acc]

\* shlex.read_token for one character c
shlex_step(c, s) ==
    IF s.st = " "
      THEN IF c = " " THEN s
           ELSE IF c = "\\" THEN [s EXCEPT !.st = "\\", !.est = "a"]
           ELSE IF c \in Quotes THEN [s EXCEPT !.st = c, !.quoted = TRUE]
           ELSE [s EXCEPT !.st = "a", !.tok = <<c>>]
    ELSE IF s.st \in Quotes
      THEN IF c = s.st THEN [s EXCEPT !.st = "a"]
           ELSE IF c = "\\" /\ s.st = "\""
             THEN [s EXCEPT !.st = "\\", !.est = s.st]
           ELSE [s EXCEPT !.tok = Append(@, c)]
    ELSE IF s.st = "\\"
      THEN IF s.est \in Quotes /\ c # "\\" /\ c # s.est
             THEN [s EXCEPT !.st = s.est, !.tok = @ \o <<"\\", c>>]
             ELSE [s EXCEPT !.st = s.est, !.tok = Append(@, c)]
    ELSE IF c = " "
      THEN LexState(" ", s.est, <<>>, FALSE, Emit(s.acc, s.tok, s.quoted))
    ELSE IF c \in Quotes THEN [s EXCEPT !.st = c, !.quoted = TRUE]
    ELSE IF c = "\\" THEN [s EXCEPT !.st = "\\", !.est = "a"]
    ELSE [s EXCEPT !.tok = Append(@, c)]

\* the lexer run from (1-based) position i to the end of the line; ok is
\* FALSE where shlex raises ValueError (no closing quotation, no escaped
\* character)
RECURSIVE shlex_scan(_, _, _)
shlex_scan(line, i, s) ==
    IF i > Len(line)
      THEN IF s.st \in Quotes \/ s.st = "\\" THEN [ok |-> FALSE, tokens |-> <<>>]
           ELSE [ok |-> TRUE, tokens |-> Emit(s.acc, s.tok, s.quoted)]
      ELSE shlex_scan(line, i + 1, shlex_step(line[i], s))

\* shlex.split(line)
shlex_split(line) ==
    shlex_scan(line, 1, LexState(" ", "a", <<>>, FALSE, <<>>))

\* not line.strip()
IsBlank(line) == \A k \in 1..Len(line) : line[k] = " "

\* ------------------------------------------------------------------------
\* State
\* ------------------------------------------------------------------------
VARIABLES
    pc,             \* where main() stands in its loop
    line,           \* the line input() returned
    cmd_name,       \* the command name of the current line
    args,           \* its argument tokens, as given to parse_redirections
    args_clean,     \* parse_redirections' clean list
    stdout_info,    \* and its three specs
    stderr_info,
    stdin_info,
    contexts,       \* the context managers built for the line
    files_to_close, \* the file objects opened for the line
    stack,          \* the ExitStack: entered context managers
    sys,            \* sys.stdin, sys.stdout, sys.stderr
    open_files,     \* the file objects of the process that are open
    out,            \* what was written while handling the line, and where to
    exc,            \* the SystemExit in flight
    dispatched,     \* what execute_command did for the line
    child,          \* the child process launched for the line
    exec_cache,     \* _exec_cache
    lookup,         \* the last call of find_executable_in_path
    path_env,       \* os.environ["PATH"]
    fs,             \* the file system
    exit_status,    \* <<n>> once the process has ended with status n
    cwd,            \* os.getcwd()
    environ,        \* os.environ: HOME and PWD
    contents        \* what the files that are followed hold, line by line

vars == <<pc, line, cmd_name, args, args_clean, stdout_info, stderr_info, stdin_info,
          contexts, files_to_close, stack, sys, open_files, out, exc,
          dispatched, child, exec_cache, lookup, path_env, fs, exit_status,
          cwd, environ, contents>>

proc_vars == <<cwd, environ>>

line_vars == <<line, cmd_name, args, args_clean, stdout_info, stderr_info, stdin_info>>

world_vars == <<exec_cache, lookup, path_env, fs>>

\* before any call of the resolver
NoLookup == [name |-> None, path |-> None, probed |-> <<>>, cached |-> FALSE]

\* what `lookup` keeps of the call r
LookupOf(r) == [name |-> r.name, path |-> r.path, probed |-> r.probed,
                cached |-> r.cached]

\* ------------------------------------------------------------------------
\* The lines given to the shell
\* ------------------------------------------------------------------------
HI == <<"h", "i">>

\* command name and plain arguments
CommandLines ==
    { <<ECHO, <<HI>>>>,
      <<EXIT, <<>>>>, <<EXIT, <<<<"4", "2">>>>>>, <<EXIT, <<<<"x">>>>>>,
      <<EXIT, <<<<"1">>, <<"2">>>>>>,
      <<TYPE, <<LS>>>>, <<TYPE, <<ECHO>>>>, <<TYPE, <<NOPE>>>>,
      <<LS, <<>>>>, <<NOPE, <<>>>>, <<PWD, <<>>>>, <<CD, <<>>>> }

\* the redirections that follow them: for each stream none, one token or
\* (stdout, stderr) two tokens, then possibly an operator that ends the line
\* with no file name.
\* f and g are files the shell may create, d is a directory, n never exists.
StdoutTokens ==
    { <<>>, << <<">", "f">> >>, << <<">", "d">> >>,
      << <<">", "n">>, <<">", ">", "f">> >> }

StderrTokens ==
    { <<>>, << <<"2", ">", "g">> >>, << <<"2", ">", "d">>, <<"2", ">", "g">> >> }

StdinTokens == { <<>>, << <<"<", "f">> >>, << <<"<", "n">> >> }

DanglingTokens == { <<>>, << <<">">> >>, << <<"2", ">">> >>, << <<"<">> >> }

InitialPath == <<"/", "b">>

\* /b holds the executables ls, echo and pwd
InitialFs ==
    (<<"/", "b", "/", "l", "s">> :> "xfile") @@ (<<"d">> :> "dir")
        @@ (<<"/", "h">> :> "dir")
        @@ (<<"/", "b", "/", "e", "c", "h", "o">> :> "xfile")
        @@ (<<"/", "b", "/", "p", "w", "d">> :> "xfile")

EmptyCache == [n \in {} |-> None]

\* no file is followed
NoContents == [n \in {} |-> <<>>]

\* the directory the shell is started in, and HOME and PWD of its environment
InitialCwd == <<"/", "h">>

InitialEnviron == [HOME |-> <<"/", "h">>, PWD |-> <<"/", "h">>]

\* ------------------------------------------------------------------------
\* main()
\* ------------------------------------------------------------------------
Init ==
    /\ pc = "loop"
    /\ line = <<>>
    /\ cmd_name = <<>>
    /\ args = <<>>
    /\ args_clean = <<>>
    /\ stdout_info = NoInfo
    /\ stderr_info = NoInfo
    /\ stdin_info = NoInfo
    /\ contexts = <<>>
    /\ files_to_close = <<>>
    /\ stack = <<>>
    /\ sys = OriginalStreams
    /\ open_files = {}
    /\ out = <<>>
    /\ exc = NoException
    /\ dispatched = "none"
    /\ child = NoChild
    /\ exec_cache = EmptyCache
    /\ lookup = NoLookup
    /\ path_env = InitialPath
    /\ fs = InitialFs
    /\ exit_status = <<>>
    /\ cwd = InitialCwd
    /\ environ = InitialEnviron
    /\ contents = NoContents

\* lines 294-297: a turn of the loop begins and the prompt is written to
\* sys.stdout. The locals of the turn before are dead from here on (each is
\* assigned again before it is read), and the model forgets them.
ShowPrompt ==
    /\ pc = "loop"
    /\ out' = <<Printed("prompt", <<"$", " ">>, sys.stdout)>>
    /\ line' = <<>>
    /\ cmd_name' = <<>>
    /\ args' = <<>>
    /\ args_clean' = <<>>
    /\ stdout_info' = NoInfo
    /\ stderr_info' = NoInfo
    /\ stdin_info' = NoInfo
    /\ contexts' = <<>>
    /\ files_to_close' = <<>>
    /\ dispatched' = "none"
    /\ child' = NoChild
    /\ lookup' = NoLookup
    /\ pc' = "prompt"
    /\ UNCHANGED <<stack, sys, open_files, exc, exit_status, exec_cache,
                   path_env, fs>>
    /\ UNCHANGED proc_vars
    /\ UNCHANGED contents

\* lines 298-322: a line is read and split into tokens, the first is the
\* command name, parse_redirections takes the rest, and the line's lists of
\* context managers and files start empty
ReadParsed(l, tokens, p) ==
    /\ line' = l
    /\ cmd_name' = Head(tokens)
    /\ args' = Tail(tokens)
    /\ args_clean' = p.cleaned
    /\ stdout_info' = p.stdout_info
    /\ stderr_info' = p.stderr_info
    /\ stdin_info' = p.stdin_info
    /\ out' = IF p.printed = "none" THEN out
              ELSE Append(out, Printed("no_filename", <<p.printed>>,
                                       sys.stdout))
    /\ contexts' = <<>>
    /\ files_to_close' = <<>>
    /\ pc' = "open_stdout"
    /\ UNCHANGED <<stack, sys, open_files, exc, dispatched, child, exit_status>>
    /\ UNCHANGED world_vars
    /\ UNCHANGED proc_vars
    /\ UNCHANGED contents

\* lines 306-319 for the line l and what shlex.split makes of it: the line
\* is not blank, shlex.split raises nothing and there is a token
ReadLexed(l, lexed) ==
    /\ ~IsBlank(l)
    /\ lexed.ok
    /\ lexed.tokens # <<>>
    /\ \E p \in {parse_redirections(Tail(lexed.tokens))} :
          ReadParsed(l, lexed.tokens, p)

\* the line l is read
ReadRaw(l) ==
    /\ pc = "prompt"
    /\ \E lexed \in {shlex_split(l)} : ReadLexed(l, lexed)

\* the line typed for a command of lines followed by a choice of tokens
\* from each of r1s, r2s, r3s and r4s, with single blanks between them
ReadLineOf(lines, r1s, r2s, r3s, r4s) ==
    /\ pc = "prompt"
    /\ \E cl \in lines, r1 \in r1s, r2 \in r2s, r3 \in r3s, r4 \in r4s :
         \E l \in {join_space(<<cl[1]>> \o cl[2] \o r1 \o r2 \o r3 \o r4)} :
             ReadRaw(l)

\* a line of CommandLines with redirections after it is read
ReadLine ==
    ReadLineOf(CommandLines, StdoutTokens, StderrTokens, StdinTokens,
               DanglingTokens)

\* lines 298-301: input() raises EOFError, an empty line is printed, the
\* loop ends and main() returns
EndOfInput ==
    /\ pc = "prompt"
    /\ out' = Append(out, Printed("newline", <<>>, sys.stdout))
    /\ pc' = "exited"
    /\ exit_status' = <<0>>
    /\ UNCHANGED <<contexts, files_to_close, stack, sys, open_files, exc,
                   dispatched, child>>
    /\ UNCHANGED line_vars
    /\ UNCHANGED world_vars
    /\ UNCHANGED proc_vars
    /\ UNCHANGED contents

\* lines the shell reads that give it no command: blank ones, one with a
\* quote that is never closed, one that ends in a backslash
OddLines ==
    { <<>>, <<" ">>, <<"e", " ", "\"", "a">>, <<"e", " ", "'">>,
      <<"e", " ", "\\">> }

\* lines 306-307: a blank line is skipped
BlankLine ==
    /\ pc = "prompt"
    /\ \E l \in OddLines : IsBlank(l)
    /\ pc' = "loop"
    /\ UNCHANGED <<contexts, files_to_close, stack, sys, open_files, out, exc,
                   dispatched, child, exit_status>>
    /\ UNCHANGED line_vars
    /\ UNCHANGED world_vars
    /\ UNCHANGED proc_vars
    /\ UNCHANGED contents

\* lines 309-313: shlex.split raises ValueError, "parse error" is printed
\* and the line is given up
QuotingError ==
    /\ pc = "prompt"
    /\ \E l \in OddLines :
         /\ ~IsBlank(l)
         /\ ~shlex_split(l).ok
         /\ out' = Append(out, Printed("parse_error", l, sys.stdout))
    /\ pc' = "loop"
    /\ UNCHANGED <<contexts, files_to_close, stack, sys, open_files, exc,
                   dispatched, child, exit_status>>
    /\ UNCHANGED line_vars
    /\ UNCHANGED world_vars
    /\ UNCHANGED proc_vars
    /\ UNCHANGED contents

\* lines 302-304: input() raises KeyboardInterrupt, an empty line is
\* printed and the loop goes on
InterruptedRead ==
    /\ pc = "prompt"
    /\ out' = Append(out, Printed("newline", <<>>, sys.stdout))
    /\ pc' = "loop"
    /\ UNCHANGED <<contexts, files_to_close, stack, sys, open_files, exc,
                   dispatched, child, exit_status>>
    /\ UNCHANGED line_vars
    /\ UNCHANGED world_vars
    /\ UNCHANGED proc_vars
    /\ UNCHANGED contents

\* line 361, interrupted: KeyboardInterrupt is raised while execute_command
\* runs a builtin or waits in subprocess.run. It is no Exception and no
\* SystemExit, so the except clauses of lines 248-251, 264-267, 362 and 367
\* let it pass; the with block restores the streams, the finally clause
\* closes the files, and the exception leaves main(): the interpreter ends
\* the process as one killed by SIGINT, which a parent shell reports as 130.
InterruptCommand ==
    /\ pc = "execute"
    /\ sys' = exit_all(stack, sys)
    /\ stack' = <<>>
    /\ open_files' = close_all(files_to_close, open_files)
    /\ contents' = flush_all(files_to_close, open_files, out, contents)
    /\ dispatched' = "interrupted"
    /\ pc' = "exited"
    /\ exit_status' = <<130>>
    /\ UNCHANGED <<contexts, files_to_close, out, exc, child>>
    /\ UNCHANGED line_vars
    /\ UNCHANGED world_vars
    /\ UNCHANGED proc_vars

\* the file object open(fname, mode) returns for the spec info of stream s
OpenedFor(info, s) == FileObject(info[1], info[2], s)

\* OpenRedirection without the `continue` of the except clause: after the
\* diagnostic the next block is reached
OpenRedirection_no_continue(info, f, manager, next_pc) ==
    IF info = NoInfo
      THEN /\ pc' = next_pc
           /\ UNCHANGED <<contexts, files_to_close, open_files, out, fs,
                          contents>>
      ELSE IF open_ok(fs, info[1], info[2])
        THEN /\ contexts' = Append(contexts, manager)
             /\ files_to_close' = Append(files_to_close, f)
             /\ open_files' = open_files \cup {f}
             /\ fs' = fs_after_open(fs, info[1], info[2])
             /\ contents' = contents_after_open(contents, info[1], info[2])
             /\ pc' = next_pc
             /\ UNCHANGED out
        ELSE /\ out' = Append(out, Printed("open_failed", info[1], sys.stderr))
             /\ pc' = next_pc
             /\ UNCHANGED <<contexts, files_to_close, open_files, fs,
                            contents>>

\* one of the three `if <stream>_info:` blocks of lines 324-355, for the
\* spec info, the file f its open() returns and the context manager built
\* around f
OpenRedirection(info, f, manager, next_pc) ==
    IF info = NoInfo
      THEN /\ pc' = next_pc
           /\ UNCHANGED <<contexts, files_to_close, open_files, out, fs,
                          contents>>
      ELSE IF open_ok(fs, info[1], info[2])
        THEN /\ contexts' = Append(contexts, manager)
             /\ files_to_close' = Append(files_to_close, f)
             /\ open_files' = open_files \cup {f}
             /\ fs' = fs_after_open(fs, info[1], info[2])
             /\ contents' = contents_after_open(contents, info[1], info[2])
             /\ pc' = next_pc
             /\ UNCHANGED out
        ELSE /\ out' = Append(out, Printed("open_failed", info[1], sys.stderr))
             /\ pc' = "finally"
             /\ UNCHANGED <<contexts, files_to_close, open_files, fs,
                            contents>>

\* lines 325-333
OpenStdout ==
    /\ pc = "open_stdout"
    /\ OpenRedirection(stdout_info, OpenedFor(stdout_info, "stdout"),
                       redirect_stdout_to(OpenedFor(stdout_info, "stdout")),
                       "open_stderr")
    /\ UNCHANGED <<stack, sys, exc, dispatched, child, exit_status>>
    /\ UNCHANGED line_vars
    /\ UNCHANGED <<exec_cache, lookup, path_env>>
    /\ UNCHANGED proc_vars

\* lines 336-344
OpenStderr ==
    /\ pc = "open_stderr"
    /\ OpenRedirection(stderr_info, OpenedFor(stderr_info, "stderr"),
                       redirect_stderr_to(OpenedFor(stderr_info, "stderr")),
                       "open_stdin")
    /\ UNCHANGED <<stack, sys, exc, dispatched, child, exit_status>>
    /\ UNCHANGED line_vars
    /\ UNCHANGED <<exec_cache, lookup, path_env>>
    /\ UNCHANGED proc_vars

\* lines 347-355
OpenStdin ==
    /\ pc = "open_stdin"
    /\ OpenRedirection(stdin_info, OpenedFor(stdin_info, "stdin"),
                       redirect_stdin_to(OpenedFor(stdin_info, "stdin")),
                       "enter")
    /\ UNCHANGED <<stack, sys, exc, dispatched, child, exit_status>>
    /\ UNCHANGED line_vars
    /\ UNCHANGED <<exec_cache, lookup, path_env>>
    /\ UNCHANGED proc_vars

\* lines 357-359: the context managers are entered
EnterContexts ==
    /\ pc = "enter"
    /\ LET e == enter_all(contexts, sys, stack)
       IN sys' = e.sys /\ stack' = e.stack
    /\ pc' = "execute"
    /\ UNCHANGED <<contexts, files_to_close, open_files, out, exc, dispatched,
                   child, exit_status>>
    /\ UNCHANGED line_vars
    /\ UNCHANGED world_vars
    /\ UNCHANGED proc_vars
    /\ UNCHANGED contents

\* line 361: execute_command(cmd_name, args_clean) returns, or raises SystemExit
ExecuteCommand ==
    /\ pc = "execute"
    /\ \E e \in {execute_command(cmd_name, args_clean, sys, exec_cache,
                                  path_env, fs, cwd, environ)} :
          /\ out' = out \o e.out
          /\ cwd' = IF e.chdir = None THEN cwd ELSE e.chdir
          /\ environ' = IF e.putenv = None THEN environ
                        ELSE [environ EXCEPT !.PWD = e.putenv]
          /\ exc' = e.exc
          /\ dispatched' = e.dispatched
          /\ child' = e.child
          /\ exec_cache' = e.res.cache
          /\ lookup' = IF e.res.name = None THEN lookup ELSE LookupOf(e.res)
          /\ pc' = IF e.exc.raised THEN "exit_handler" ELSE "unwind"
    /\ UNCHANGED <<contexts, files_to_close, stack, sys, open_files, exit_status>>
    /\ UNCHANGED line_vars
    /\ UNCHANGED <<path_env, fs>>
    /\ UNCHANGED contents

\* lines 362-365: the files are closed and the SystemExit is raised again
ExitHandler ==
    /\ pc = "exit_handler"
    /\ open_files' = close_all(files_to_close, open_files)
    /\ contents' = flush_all(files_to_close, open_files, out, contents)
    /\ pc' = "unwind"
    /\ UNCHANGED <<contexts, files_to_close, stack, sys, out, exc, dispatched,
                   child, exit_status>>
    /\ UNCHANGED line_vars
    /\ UNCHANGED world_vars
    /\ UNCHANGED proc_vars

\* the end of the with block of line 357, left normally or by SystemExit
LeaveContexts ==
    /\ pc = "unwind"
    /\ sys' = exit_all(stack, sys)
    /\ stack' = <<>>
    /\ pc' = "finally"
    /\ UNCHANGED <<contexts, files_to_close, open_files, out, exc, dispatched,
                   child, exit_status>>
    /\ UNCHANGED line_vars
    /\ UNCHANGED world_vars
    /\ UNCHANGED proc_vars
    /\ UNCHANGED contents

\* lines 367-376: `except SystemExit: break`, the finally clause that closes
\* the files, then the next turn of the loop or, after the break, the return
\* of main(), with which the process ends
Finally ==
    /\ pc = "finally"
    /\ open_files' = close_all(files_to_close, open_files)
    /\ contents' = flush_all(files_to_close, open_files, out, contents)
    /\ IF exc.raised
         THEN pc' = "exited" /\ exit_status' = <<0>>
         ELSE pc' = "loop" /\ UNCHANGED exit_status
    /\ UNCHANGED <<contexts, files_to_close, stack, sys, out, exc, dispatched,
                   child>>
    /\ UNCHANGED line_vars
    /\ UNCHANGED world_vars
    /\ UNCHANGED proc_vars

Next ==
    \/ ShowPrompt
    \/ ReadLine
    \/ EndOfInput
    \/ BlankLine
    \/ QuotingError
    \/ InterruptedRead
    \/ InterruptCommand
    \/ OpenStdout
    \/ OpenStderr
    \/ OpenStdin
    \/ EnterContexts
    \/ ExecuteCommand
    \/ ExitHandler
    \/ LeaveContexts
    \/ Finally

Spec == Init /\ [][Next]_vars

\* ------------------------------------------------------------------------
\* The shell given cd and pwd lines, started with HOME set to a directory,
\* set to a path that does not exist, or unset
\* ------------------------------------------------------------------------
DirH == <<"/", "h">>
DirHS == <<"/", "h", "/", "s">>
FileHK == <<"/", "h", "/", "k">>
DirP == <<"/", "p">>
PathNX == <<"/", "n", "x">>

\* / , /h, /h/s and the password-database home /r are directories, /h/k is
\* a file, /p is a directory the process may not enter; nothing else exists
CdFs ==
    (<<"/">> :> "dir") @@ (DirH :> "dir") @@ (DirHS :> "dir")
        @@ (FileHK :> "file") @@ (pw_dir :> "dir") @@ (DirP :> "lockeddir")

CdLines ==
    { <<CD, <<>>>>, <<CD, <<DirH>>>>, <<CD, <<<<"/">>>>>>, <<CD, <<<<"s">>>>>>,
      <<CD, <<<<"k">>>>>>, <<CD, <<<<"~">>>>>>, <<CD, <<<<"~", "/", "s">>>>>>,
      <<CD, <<<<"~", "u">>>>>>, <<CD, <<PathNX>>>>, <<CD, <<DirP>>>>,
      <<CD, <<DirH, <<"s">>>>>>, <<PWD, <<>>>> }

HomeChoices == { DirH, PathNX, None }

InitCd ==
    /\ pc = "loop"
    /\ line = <<>>
    /\ cmd_name = <<>>
    /\ args = <<>>
    /\ args_clean = <<>>
    /\ stdout_info = NoInfo
    /\ stderr_info = NoInfo
    /\ stdin_info = NoInfo
    /\ contexts = <<>>
    /\ files_to_close = <<>>
    /\ stack = <<>>
    /\ sys = OriginalStreams
    /\ open_files = {}
    /\ out = <<>>
    /\ exc = NoException
    /\ dispatched = "none"
    /\ child = NoChild
    /\ exec_cache = EmptyCache
    /\ lookup = NoLookup
    /\ path_env = InitialPath
    /\ fs = CdFs
    /\ exit_status = <<>>
    /\ cwd = InitialCwd
    /\ \E home \in HomeChoices : environ = [HOME |-> home, PWD |-> InitialCwd]
    /\ contents = NoContents

\* another process removes the directory /h/s
RemoveDir ==
    /\ DirHS \in DOMAIN fs
    /\ fs' = [q \in DOMAIN fs \ {DirHS} |-> fs[q]]
    /\ UNCHANGED <<pc, contexts, files_to_close, stack, sys, open_files, out,
                   exc, dispatched, child, exit_status, exec_cache, lookup,
                   path_env>>
    /\ UNCHANGED line_vars
    /\ UNCHANGED proc_vars
    /\ UNCHANGED contents

\* a cd or pwd line without redirections is read
ReadCdLine == ReadLineOf(CdLines, {<<>>}, {<<>>}, {<<>>}, {<<>>})

NextCd ==
    \/ ShowPrompt
    \/ ReadCdLine
    \/ EndOfInput
    \/ OpenStdout
    \/ OpenStderr
    \/ OpenStdin
    \/ EnterContexts
    \/ ExecuteCommand
    \/ LeaveContexts
    \/ Finally
    \/ RemoveDir

SpecCd == InitCd /\ [][NextCd]_vars

\* ------------------------------------------------------------------------
\* The shell given lines that write to standard output, run again and
\* again with the file t as target of `>`, `1>`, `>>` and `1>>`; the
\* contents of t are followed
\* ------------------------------------------------------------------------
FileT == <<"t">>

YO == <<"y", "o">>

WritingLines == { <<ECHO, <<HI>>>>, <<ECHO, <<YO>>>>, <<LS, <<>>>> }

TruncatingTokens == { <<>>, << <<">", "t">> >>, << <<"1", ">", "t">> >> }

AppendingTokens == { << <<">", ">", "t">> >>, << <<"1", ">", ">", "t">> >> }

InitAppend ==
    /\ pc = "loop"
    /\ line = <<>>
    /\ cmd_name = <<>>
    /\ args = <<>>
    /\ args_clean = <<>>
    /\ stdout_info = NoInfo
    /\ stderr_info = NoInfo
    /\ stdin_info = NoInfo
    /\ contexts = <<>>
    /\ files_to_close = <<>>
    /\ stack = <<>>
    /\ sys = OriginalStreams
    /\ open_files = {}
    /\ out = <<>>
    /\ exc = NoException
    /\ dispatched = "none"
    /\ child = NoChild
    /\ exec_cache = EmptyCache
    /\ lookup = NoLookup
    /\ path_env = InitialPath
    /\ fs = InitialFs
    /\ exit_status = <<>>
    /\ cwd = InitialCwd
    /\ environ = InitialEnviron
    /\ contents = (FileT :> <<>>)

\* a writing line is read; one that appends only while t holds fewer than
\* MaxFileLines lines
ReadWritingLine ==
    ReadLineOf(WritingLines,
               IF Len(contents[FileT]) < MaxFileLines
                 THEN TruncatingTokens \cup AppendingTokens
                 ELSE TruncatingTokens,
               {<<>>}, {<<>>}, {<<>>})

NextAppend ==
    \/ ShowPrompt
    \/ ReadWritingLine
    \/ EndOfInput
    \/ OpenStdout
    \/ OpenStderr
    \/ OpenStdin
    \/ EnterContexts
    \/ ExecuteCommand
    \/ LeaveContexts
    \/ Finally

SpecAppend == InitAppend /\ [][NextAppend]_vars

\* ------------------------------------------------------------------------
\* parse_redirections on its own: every argument list of up to
\* MaxParseArgs tokens over ParseTokens is parsed once
\* ------------------------------------------------------------------------
\* the recognized operators
Operators == { <<"2", ">", ">">>, <<"2", ">">>, <<"1", ">", ">">>, <<">", ">">>,
               <<"1", ">">>, <<">">>, <<"<">> }

\* tokens that begin with no operator
PlainTokens == { <<"a">>, <<"f">>, <<>>, <<"1">>, <<"2">>, <<"a", ">", "f">> }

\* each operator with the file name f attached, and two longer ones
AttachedTokens == { op \o <<"f">> : op \in Operators }
                    \cup { <<">", ">", ">", "f">>, <<"2", ">", "1", ">", "f">> }

ParseTokens == PlainTokens \cup Operators \cup AttachedTokens

ParseArgLists == UNION { [1..n -> ParseTokens] : n \in 0..MaxParseArgs }

InitParse ==
    /\ pc = "input"
    /\ line = <<>>
    /\ cmd_name = ECHO
    /\ args \in ParseArgLists
    /\ args_clean = <<>>
    /\ stdout_info = NoInfo
    /\ stderr_info = NoInfo
    /\ stdin_info = NoInfo
    /\ contexts = <<>>
    /\ files_to_close = <<>>
    /\ stack = <<>>
    /\ sys = OriginalStreams
    /\ open_files = {}
    /\ out = <<>>
    /\ exc = NoException
    /\ dispatched = "none"
    /\ child = NoChild
    /\ exec_cache = EmptyCache
    /\ lookup = NoLookup
    /\ path_env = InitialPath
    /\ fs = InitialFs
    /\ exit_status = <<>>
    /\ cwd = InitialCwd
    /\ environ = InitialEnviron
    /\ contents = NoContents

\* line 319: args_clean, stdout_info, stderr_info, stdin_info =
\* parse_redirections(args)
Parse ==
    /\ pc = "input"
    /\ LET p == parse_redirections(args)
       IN /\ args_clean' = p.cleaned
          /\ stdout_info' = p.stdout_info
          /\ stderr_info' = p.stderr_info
          /\ stdin_info' = p.stdin_info
          /\ out' = IF p.printed = "none" THEN out
                    ELSE Append(out, Printed("no_filename", <<p.printed>>,
                                             sys.stdout))
    /\ pc' = "parsed"
    /\ UNCHANGED <<line, cmd_name, args, contexts, files_to_close, stack, sys,
                   open_files, exc, dispatched, child, exit_status>>
    /\ UNCHANGED world_vars
    /\ UNCHANGED proc_vars
    /\ UNCHANGED contents

NextParse == Parse

SpecParse == InitParse /\ [][NextParse]_vars

\* ------------------------------------------------------------------------
\* find_executable_in_path on its own: names are resolved, in any order and
\* any number of times, under one PATH and one file system
\* ------------------------------------------------------------------------
DirA == <<"/", "a">>
DirB == <<"/", "b">>
PathAX == <<"/", "a", "/", "x">>
PathBX == <<"/", "b", "/", "x">>
PathAY == <<"/", "a", "/", "y">>
PathBY == <<"/", "b", "/", "y">>
PathBQ == <<"/", "b", "/", "q">>

\* values of PATH: the raw string and the directories it lists, in order
\* (raw None: PATH is unset)
PathChoices ==
    { [raw |-> None, dirs |-> <<>>],
      [raw |-> <<>>, dirs |-> <<>>],
      [raw |-> <<"/", "a">>, dirs |-> <<DirA>>],
      [raw |-> <<"/", "a", ":", "/", "b">>, dirs |-> <<DirA, DirB>>],
      [raw |-> <<"/", "b", ":", "/", "a">>, dirs |-> <<DirB, DirA>>],
      [raw |-> <<":", "/", "b">>, dirs |-> <<<<>>, DirB>>],
      [raw |-> <<"/", "a", ":", ":", "/", "b">>, dirs |-> <<DirA, <<>>, DirB>>] }

\* the directories of a raw PATH value of PathChoices
ListedDirs(raw) == (CHOOSE c \in PathChoices : c.raw = raw).dirs

\* file systems: /a and /b are directories; what x and y are in them varies
FsChoices ==
    { (PathAX :> ax) @@ (PathBX :> bx) @@ (PathAY :> ay) @@ (PathBY :> "xfile")
        @@ (DirA :> "dir") @@ (DirB :> "dir") :
        ax \in {"absent", "file", "xfile", "dir"},
        bx \in {"absent", "file", "xfile"},
        ay \in {"absent", "xfile"} }

\* x and y are searched on PATH; the absolute names are a file of FsChoices
\* and a path that never exists
ResolveNames == { <<"x">>, <<"y">>, PathAX, PathBQ }

InitResolve ==
    /\ pc = "resolve"
    /\ line = <<>>
    /\ cmd_name = <<>>
    /\ args = <<>>
    /\ args_clean = <<>>
    /\ stdout_info = NoInfo
    /\ stderr_info = NoInfo
    /\ stdin_info = NoInfo
    /\ contexts = <<>>
    /\ files_to_close = <<>>
    /\ stack = <<>>
    /\ sys = OriginalStreams
    /\ open_files = {}
    /\ out = <<>>
    /\ exc = NoException
    /\ dispatched = "none"
    /\ child = NoChild
    /\ exec_cache = EmptyCache
    /\ lookup = NoLookup
    /\ \E c \in PathChoices : path_env = c.raw
    /\ fs \in FsChoices
    /\ exit_status = <<>>
    /\ cwd = InitialCwd
    /\ environ = InitialEnviron
    /\ contents = NoContents

\* one call find_executable_in_path(name), as builtin_type (line 83) and
\* execute_command (line 254) make it
Resolve ==
    /\ pc = "resolve"
    /\ \E name \in ResolveNames :
         LET r == find_executable_in_path(name, exec_cache, path_env, fs)
         IN /\ exec_cache' = r.cache
            /\ lookup' = LookupOf(r)
    /\ UNCHANGED <<pc, contexts, files_to_close, stack, sys, open_files, out,
                   exc, dispatched, child, path_env, fs, exit_status>>
    /\ UNCHANGED line_vars
    /\ UNCHANGED proc_vars
    /\ UNCHANGED contents

NextResolve == Resolve

SpecResolve == InitResolve /\ [][NextResolve]_vars

\* ------------------------------------------------------------------------
\* The shell given `type <name>` and `<name>` lines for the names x and
\* /a/x while other processes install and remove the executables /a/x and
\* /b/x. PATH is /a:/b; no statement of the program assigns PATH, so it
\* stays as it is for the whole session.
\* ------------------------------------------------------------------------
NameX == <<"x">>

StaleLines ==
    { <<TYPE, <<NameX>>>>, <<NameX, <<>>>>,
      <<TYPE, <<PathAX>>>>, <<PathAX, <<>>>> }

StalePath == <<"/", "a", ":", "/", "b">>

\* /a and /b are directories; at the start /b/x is an executable
StaleFs == (DirA :> "dir") @@ (DirB :> "dir") @@ (PathBX :> "xfile")

\* the executables that come and go
Volatile == {PathAX, PathBX}

InitStale ==
    /\ pc = "loop"
    /\ line = <<>>
    /\ cmd_name = <<>>
    /\ args = <<>>
    /\ args_clean = <<>>
    /\ stdout_info = NoInfo
    /\ stderr_info = NoInfo
    /\ stdin_info = NoInfo
    /\ contexts = <<>>
    /\ files_to_close = <<>>
    /\ stack = <<>>
    /\ sys = OriginalStreams
    /\ open_files = {}
    /\ out = <<>>
    /\ exc = NoException
    /\ dispatched = "none"
    /\ child = NoChild
    /\ exec_cache = EmptyCache
    /\ lookup = NoLookup
    /\ path_env = StalePath
    /\ fs = StaleFs
    /\ exit_status = <<>>
    /\ cwd = InitialCwd
    /\ environ = InitialEnviron
    /\ contents = NoContents

ReadStaleLine == ReadLineOf(StaleLines, {<<>>}, {<<>>}, {<<>>}, {<<>>})

\* another process installs an executable
Install ==
    /\ pc # "exited"
    /\ \E p \in Volatile :
         /\ KindOf(fs, p) = "absent"
         /\ fs' = (p :> "xfile") @@ fs
    /\ UNCHANGED <<pc, contexts, files_to_close, stack, sys, open_files, out,
                   exc, dispatched, child, exit_status, exec_cache, lookup,
                   path_env, contents>>
    /\ UNCHANGED line_vars
    /\ UNCHANGED proc_vars

\* another process removes one
Remove ==
    /\ pc # "exited"
    /\ \E p \in Volatile :
         /\ KindOf(fs, p) # "absent"
         /\ fs' = [q \in DOMAIN fs \ {p} |-> fs[q]]
    /\ UNCHANGED <<pc, contexts, files_to_close, stack, sys, open_files, out,
                   exc, dispatched, child, exit_status, exec_cache, lookup,
                   path_env, contents>>
    /\ UNCHANGED line_vars
    /\ UNCHANGED proc_vars

NextStale ==
    \/ ShowPrompt
    \/ ReadStaleLine
    \/ EndOfInput
    \/ OpenStdout
    \/ OpenStderr
    \/ OpenStdin
    \/ EnterContexts
    \/ ExecuteCommand
    \/ LeaveContexts
    \/ Finally
    \/ Install
    \/ Remove

SpecStale == InitStale /\ [][NextStale]_vars

\* ------------------------------------------------------------------------
\* The shell given lines with quoted and escaped operator characters:
\*     echo ">" q
\*     echo "2>x" z
\*     echo '>>q' a
\*     echo \> q
\*     echo > q
\*     echo a "b c"
\*     echo "a>b"
\*     type "<" ls
\* ------------------------------------------------------------------------
QuotedLines ==
    { <<"e", "c", "h", "o", " ", "\"", ">", "\"", " ", "q">>,
      <<"e", "c", "h", "o", " ", "\"", "2", ">", "x", "\"", " ", "z">>,
      <<"e", "c", "h", "o", " ", "'", ">", ">", "q", "'", " ", "a">>,
      <<"e", "c", "h", "o", " ", "\\", ">", " ", "q">>,
      <<"e", "c", "h", "o", " ", ">", " ", "q">>,
      <<"e", "c", "h", "o", " ", "a", " ", "\"", "b", " ", "c", "\"">>,
      <<"e", "c", "h", "o", " ", "\"", "a", ">", "b", "\"">>,
      <<"t", "y", "p", "e", " ", "\"", "<", "\"", " ", "l", "s">> }

ReadQuotedLine == \E l \in QuotedLines : ReadRaw(l)

NextQuote ==
    \/ ShowPrompt
    \/ ReadQuotedLine
    \/ EndOfInput
    \/ OpenStdout
    \/ OpenStderr
    \/ OpenStdin
    \/ EnterContexts
    \/ ExecuteCommand
    \/ LeaveContexts
    \/ Finally

SpecQuote == Init /\ [][NextQuote]_vars

\* ========================================================================
\* Claims
\* ========================================================================
\* the spec parse_redirections returned for stream s
InfoOf(s) == IF s = "stdout" THEN stdout_info
             ELSE IF s = "stderr" THEN stderr_info
             ELSE stdin_info

\* some line printed for the current line is of this kind
HasPrinted(kind) == \E k \in 1..Len(out) : out[k].kind = kind

\* the builtin exit was given no argument or one string of decimal digits
ExitArgsValid ==
    \/ Len(args_clean) = 0
    \/ /\ Len(args_clean) = 1
       /\ args_clean[1] # <<>>
       /\ \A k \in 1..Len(args_clean[1]) :
            args_clean[1][k] \in {"0", "1", "2", "3", "4", "5", "6", "7", "8", "9"}

\* C1: when the builtin exit ends the shell, the status of the process is
\* the requested one: 0 for `exit`, N for `exit N`.
C1_ExitStatusIsRequested ==
    (pc = "exited" /\ exc.raised) => exit_status = <<exc.code>>

\* C2: when parse_redirections reports a missing file name, nothing is
\* dispatched for that line: no builtin runs, no name is resolved, no
\* child is launched.
C2_MissingFilenameAbandonsLine ==
    HasPrinted("no_filename") => dispatched = "none"

\* C3: the standard streams of a launched child are the redirection
\* targets: for each stream with a spec, the child's stream is the file
\* opened for that spec.
C3_ChildStreamsAreTargets ==
    child.launched =>
        \A s \in Streams :
            InfoOf(s) # NoInfo => child[s] = OpenedFor(InfoOf(s), s)

\* C4: whenever the shell is back at the top of its loop or at the prompt,
\* sys.stdin, sys.stdout and sys.stderr are the original streams and no file
\* object opened for a redirection is open.
C4_PromptStreamsRestored ==
    pc \in {"loop", "prompt"} => sys = OriginalStreams /\ open_files = {}

\* a line whose stdout file was opened and whose stdin file then failed to
\* open has been handled, and the shell is back at the top of its loop
C4_Witness ==
    /\ pc = "loop"
    /\ Len(files_to_close) >= 1
    /\ HasPrinted("open_failed")

\* C5: an exit request of the builtin exit reaches main() (execute_command
\* does not swallow it), and when the process has ended because of it every
\* stream is the original again and no redirection file is open.
C5_ExitRequestCleansUp ==
    /\ (dispatched = "builtin" /\ cmd_name = EXIT /\ ExitArgsValid) => exc.raised
    /\ (pc = "exited" /\ exc.raised) =>
           sys = OriginalStreams /\ open_files = {}

\* `exit 42` with all three streams redirected has ended the process
C5_Witness ==
    /\ pc = "exited"
    /\ exc.raised
    /\ Len(files_to_close) = 3

\* C10: while the command of a line runs, sys.<s> is the file opened for the
\* spec of stream s when s has a spec, and the original stream when it has
\* none; back at the loop top sys.stderr is the original again, and the
\* prompt and the shell's own diagnostics of the next line go to the
\* original streams.
C10_OnlySpecifiedStreamsRebound ==
    /\ pc \in {"execute", "exit_handler", "unwind"} =>
          \A s \in Streams :
              sys[s] = IF InfoOf(s) = NoInfo THEN Original(s)
                       ELSE OpenedFor(InfoOf(s), s)
    /\ pc \in {"loop", "prompt"} => sys.stderr = Original("stderr")
    /\ \A k \in 1..Len(out) :
          out[k].kind \in {"prompt", "no_filename", "open_failed"} =>
              out[k].to \in {Original("stdout"), Original("stderr")}

\* a builtin has run on a line that redirects stderr alone
C10_Witness ==
    /\ pc = "unwind"
    /\ dispatched = "builtin"
    /\ stderr_info # NoInfo
    /\ stdout_info = NoInfo
    /\ stdin_info = NoInfo
    /\ sys.stderr # Original("stderr")

\* t begins with a recognized operator
IsOperatorToken(t) == \E op \in Operators : StartsWith(t, op)

\* the longest recognized operator t begins with
LongestOperator(t) ==
    CHOOSE op \in Operators :
        /\ StartsWith(t, op)
        /\ \A o \in Operators : StartsWith(t, o) => Len(o) <= Len(op)

\* the text of t after its longest operator
AttachedText(t) == SubSeq(t, Len(LongestOperator(t)) + 1, Len(t))

\* the stream and the mode each operator stands for
StreamOfOperator(op) ==
    IF op \in {<<"2", ">", ">">>, <<"2", ">">>} THEN "stderr_info"
    ELSE IF op = <<"<">> THEN "stdin_info"
    ELSE "stdout_info"

ModeOfOperator(op) ==
    IF op \in {<<"2", ">", ">">>, <<"1", ">", ">">>, <<">", ">">>} THEN "a"
    ELSE IF op = <<"<">> THEN "r"
    ELSE "w"

\* toks with each operator token removed, and with it the token after it
\* when the operator has no attached text
RECURSIVE WithoutRedirections(_)
WithoutRedirections(toks) ==
    IF toks = <<>> THEN <<>>
    ELSE IF ~IsOperatorToken(Head(toks))
      THEN <<Head(toks)>> \o WithoutRedirections(Tail(toks))
    ELSE IF AttachedText(Head(toks)) # <<>>
      THEN WithoutRedirections(Tail(toks))
    ELSE IF Len(toks) >= 2 THEN WithoutRedirections(Tail(Tail(toks)))
    ELSE <<>>

\* C8: the clean argument list is the argument list with every operator
\* token, and the file-name token after each operator that has no attached
\* text, removed and the other tokens in their order; when no token begins
\* with an operator the clean list is the argument list and no stream has
\* a spec.
C8_CleanListIsInputWithoutRedirections ==
    pc = "parsed" =>
        /\ args_clean = WithoutRedirections(args)
        /\ (\A i \in 1..Len(args) : ~IsOperatorToken(args[i])) =>
               /\ args_clean = args
               /\ stdout_info = NoInfo
               /\ stderr_info = NoInfo
               /\ stdin_info = NoInfo

\* a plain token, a detached operator and its file name have been parsed
C8_Witness ==
    /\ pc = "parsed"
    /\ args = << <<"a">>, <<">">>, <<"f">> >>
    /\ args_clean = << <<"a">> >>

\* the positions of args that hold an operator token
OperatorPositions == {i \in 1..Len(args) : IsOperatorToken(args[i])}

\* C9: every operator token is classified by its longest operator: the
\* stream and mode are that operator's, the file name is the attached text
\* when there is some (one token consumed) and otherwise the next token
\* (two consumed); and a line with one operator token and a file name for
\* it yields exactly that spec, for that stream alone.
C9_LongestOperatorFirst ==
    /\ \A i \in OperatorPositions :
          LET op == LongestOperator(args[i])
              text == AttachedText(args[i])
              r == RedirAt(args, i)
          IN /\ r.handled
             /\ r.stream = StreamOfOperator(op)
             /\ r.mode = ModeOfOperator(op)
             /\ r.fname = IF text # <<>> THEN text
                          ELSE IF i < Len(args) THEN args[i + 1] ELSE None
             /\ r.advance = IF text # <<>> THEN 0 ELSE 1
    /\ (pc = "parsed" /\ Cardinality(OperatorPositions) = 1) =>
          LET i == CHOOSE i \in OperatorPositions : TRUE
              op == LongestOperator(args[i])
              text == AttachedText(args[i])
              fname == IF text # <<>> THEN text
                       ELSE IF i < Len(args) THEN args[i + 1] ELSE <<>>
              got == [stdout_info |-> stdout_info, stderr_info |-> stderr_info,
                      stdin_info |-> stdin_info]
          IN fname # <<>> =>
                /\ got[StreamOfOperator(op)] = <<fname, ModeOfOperator(op)>>
                /\ \A s \in DOMAIN got :
                      s # StreamOfOperator(op) => got[s] = NoInfo
                /\ Len(args_clean) =
                      Len(args) - (IF text # <<>> THEN 1 ELSE 2)

\* `2>>f` has been parsed into a stderr append spec for f
C9_Witness ==
    /\ pc = "parsed"
    /\ args = << <<"a">>, <<"2", ">", ">", "f">> >>
    /\ stderr_info = << <<"f">>, "a" >>
    /\ stdout_info = NoInfo

\* C6: every call of the resolver leaves its outcome in the cache under the
\* name it was given, found or not and absolute or not, and a call for a
\* name already in the cache probes nothing.
C6_EveryOutcomeCached ==
    lookup.name # None =>
        /\ lookup.name \in DOMAIN exec_cache
        /\ exec_cache[lookup.name] = lookup.path
        /\ lookup.cached => lookup.probed = <<>>

\* directory d holds an executable regular file called name
Qualifies(d, name) ==
    d # <<>> /\ KindOf(fs, d \o <<"/">> \o name) = "xfile"

\* C7: a call for a name that is not absolute and not in the cache returns
\* <dir>/<name> for the first directory of PATH, empty segments skipped,
\* that holds an executable regular file of that name, and None exactly when
\* no directory does.
C7_FirstMatchInPathOrder ==
    (lookup.name # None /\ lookup.name[1] # "/" /\ ~lookup.cached) =>
        LET dirs == ListedDirs(path_env)
            hits == {k \in 1..Len(dirs) : Qualifies(dirs[k], lookup.name)}
            first == CHOOSE k \in hits : \A j \in hits : k <= j
        IN IF hits = {} THEN lookup.path = None
           ELSE lookup.path = dirs[first] \o <<"/">> \o lookup.name

\* x was found in /b, the third segment of PATH, after /a, where x is a
\* directory, and an empty segment
C7_Witness ==
    /\ lookup.name = <<"x">>
    /\ ~lookup.cached
    /\ lookup.path = PathBX
    /\ path_env = <<"/", "a", ":", ":", "/", "b">>
    /\ KindOf(fs, PathAX) = "dir"

\* the builtin exit has run on the current line with an argument list it
\* rejects: more than one argument, or one that int() does not accept
ExitRejected ==
    /\ cmd_name = EXIT
    /\ dispatched = "builtin"
    /\ \/ Len(args_clean) > 1
       \/ Len(args_clean) = 1 /\ ~int(args_clean[1]).ok

\* C11: `exit` with one argument that is no integer prints the "numeric
\* argument required" line, `exit` with more than one argument prints the
\* arity line; in both cases no exit request is raised, the process does
\* not end, and from the end of the line the shell goes to the top of its
\* loop, where the next line is read.
C11_RejectedExitContinues ==
    /\ [](ExitRejected =>
            /\ ~exc.raised
            /\ pc # "exited"
            /\ exit_status = <<>>
            /\ IF Len(args_clean) > 1
                 THEN HasPrinted("exit_arity") /\ ~HasPrinted("exit_numeric")
                 ELSE HasPrinted("exit_numeric") /\ ~HasPrinted("exit_arity"))
    /\ [][(ExitRejected /\ pc = "finally") => pc' = "loop"]_vars

\* `exit x` has printed its numeric-argument line and the shell is back at
\* the top of its loop
C11_Witness ==
    /\ pc = "loop"
    /\ ExitRejected
    /\ Len(args_clean) = 1
    /\ HasPrinted("exit_numeric")

\* the home directory: HOME, or the password database's entry without it
HomeDirectory == IF environ.HOME # None THEN environ.HOME ELSE pw_dir

\* the directory `cd` with the arguments of the current line is to go to:
\* home with no argument; else the argument, a leading `~` or `~/` standing
\* for home, and a path that is not absolute taken from the working directory
CdGoal ==
    LET a == IF Len(args_clean) = 0 THEN HomeDirectory ELSE args_clean[1]
        e == IF a = <<"~">> THEN HomeDirectory
             ELSE IF StartsWith(a, <<"~", "/">>)
               THEN HomeDirectory \o SliceFrom(a, 1)
             ELSE a
    IN IF StartsWith(e, <<"/">>) THEN e
       ELSE IF cwd = <<"/">> THEN cwd \o e
       ELSE cwd \o <<"/">> \o e

\* the step in which the builtin cd runs
CdRuns == pc = "execute" /\ cmd_name = CD /\ pc' = "unwind"

C13_OnlyExitOrEofEndsLoop ==
    [][pc' = "exited" => (pc = "prompt" \/ pc = "exited" \/ exc.raised)]_vars

\* what the command of the current line wrote to its standard output
RunOutput ==
    LET sel == SelectSeq(out, LAMBDA e : e.kind \in {"echo", "child_output"})
    IN [k \in 1..Len(sel) |-> [kind |-> sel[k].kind, arg |-> sel[k].arg]]

\* the command of the current line has run with its standard output
\* redirected to t in this mode
RanInto(mode) ==
    /\ stdout_info = <<FileT, mode>>
    /\ dispatched \in {"builtin", "external"}

\* C14: when a line whose command wrote to standard output is done, t holds
\* exactly the run's output after `> t` or `1> t`, and what it held before
\* the line followed by the run's output after `>> t` or `1>> t` (no step
\* of an appending line before its last changes t).
C14_TruncateThenAppend ==
    /\ [][(pc = "finally" /\ RanInto("w")) => contents'[FileT] = RunOutput]_vars
    /\ [][(pc = "finally" /\ RanInto("a")) =>
             contents'[FileT] = contents[FileT] \o RunOutput]_vars
    /\ [][(pc # "finally" /\ stdout_info = <<FileT, "a">>) =>
             contents' = contents]_vars

\* C14 for the builtins alone
C14_BuiltinsTruncateThenAppend ==
    /\ [][(pc = "finally" /\ RanInto("w") /\ dispatched = "builtin") =>
             contents'[FileT] = RunOutput]_vars
    /\ [][(pc = "finally" /\ RanInto("a") /\ dispatched = "builtin") =>
             contents'[FileT] = contents[FileT] \o RunOutput]_vars
    /\ [][(pc # "finally" /\ stdout_info = <<FileT, "a">>) =>
             contents' = contents]_vars

\* C15: a builtin name is never resolved on PATH: no entry of the resolver
\* cache has a builtin name as key; a line whose command name is a builtin
\* runs the builtin, launches no child and calls the resolver for no builtin
\* name, also when PATH holds an executable of that name; and `type` with a
\* builtin name says "is a shell builtin" and makes no call of the resolver.
C15_BuiltinsNeverResolved ==
    /\ \A b \in shell_builtins : b \notin DOMAIN exec_cache
    /\ lookup.name \notin shell_builtins
    /\ (cmd_name \in shell_builtins /\ dispatched \notin {"none", "interrupted"}) =>
          dispatched = "builtin" /\ ~child.launched
    /\ (/\ cmd_name = TYPE
        /\ dispatched = "builtin"
        /\ Len(args_clean) = 1
        /\ args_clean[1] \in shell_builtins) =>
          /\ \E k \in 1..Len(out) :
                out[k].kind = "is_builtin" /\ out[k].arg = args_clean[1]
          /\ ~HasPrinted("is_path")
          /\ lookup = NoLookup

\* `type echo` has answered, with an executable echo in the directory of PATH
C15_Witness ==
    /\ pc = "unwind"
    /\ cmd_name = TYPE
    /\ args_clean = <<ECHO>>
    /\ HasPrinted("is_builtin")
    /\ IsExecutableFile(fs, path_join(InitialPath, ECHO))
    /\ path_env = InitialPath

\* the spec of the last redirection for stream s among toks, NoInfo when
\* there is none: operator tokens are read from the left, one without
\* attached text taking the token after it as its file name
RECURSIVE LastRedirection(_, _, _)
LastRedirection(toks, s, last) ==
    IF toks = <<>> THEN last
    ELSE IF ~IsOperatorToken(Head(toks))
      THEN LastRedirection(Tail(toks), s, last)
    ELSE LET op == LongestOperator(Head(toks))
             text == AttachedText(Head(toks))
             fname == IF text # <<>> THEN text
                      ELSE IF Len(toks) >= 2 THEN toks[2] ELSE None
             rest == IF text # <<>> \/ Len(toks) < 2 THEN Tail(toks)
                     ELSE Tail(Tail(toks))
         IN LastRedirection(rest, s,
                IF StreamOfOperator(op) = s \o "_info"
                  THEN <<fname, ModeOfOperator(op)>> ELSE last)

\* C16: when a line has been parsed and no file name is reported missing,
\* the spec of each stream is that of the stream's last operator on the
\* line (NoInfo when it has none, whatever the other streams have), every
\* file opened for the line is the target of such a last operator, and n,
\* which the lines name only as an earlier target, is never created.
C16_LastRedirectionWins ==
    /\ (pc \notin {"input", "resolve"} /\ ~HasPrinted("no_filename")) =>
          \A s \in Streams : InfoOf(s) = LastRedirection(args, s, NoInfo)
    /\ \A k \in 1..Len(files_to_close) :
          \E s \in Streams :
              /\ LastRedirection(args, s, NoInfo) # NoInfo
              /\ files_to_close[k] = OpenedFor(LastRedirection(args, s, NoInfo), s)
    /\ KindOf(fs, <<"n">>) = "absent"

\* `> n >> f 2> d 2> g` has been parsed and its files opened: f to append
\* and g, not n and not the directory d
C16_Witness ==
    /\ pc = "execute"
    /\ Len(args) >= 4
    /\ stdout_info = << <<"f">>, "a" >>
    /\ stderr_info = << <<"g">>, "w" >>
    /\ Len(files_to_close) = 2
    /\ ~HasPrinted("open_failed")

\* C17: when a redirection target of the line failed to open, a diagnostic
\* that names the target has gone to the original stderr, nothing is
\* dispatched, the three streams are the original ones (they are so during
\* all the opens of a line and until the context managers are entered), and
\* the next step closes every file opened for the line and leads to the top
\* of the loop.
C17_OpenFailureAbandonsLine ==
    /\ [](HasPrinted("open_failed") =>
            /\ \E k \in 1..Len(out), s \in Streams :
                  /\ out[k].kind = "open_failed"
                  /\ InfoOf(s) # NoInfo
                  /\ out[k].arg = InfoOf(s)[1]
                  /\ out[k].to = Original("stderr")
            /\ dispatched = "none"
            /\ child = NoChild
            /\ sys = OriginalStreams
            /\ stack = <<>>
            /\ pc \in {"finally", "loop"}
            /\ pc = "loop" => open_files = {})
    /\ [](pc \in {"open_stdout", "open_stderr", "open_stdin", "enter"} =>
            sys = OriginalStreams)
    /\ [][(HasPrinted("open_failed") /\ pc = "finally") =>
            (pc' = "loop" /\ open_files' = {})]_vars

\* `< n` failed to open after the files of stdout and stderr were opened,
\* and the shell is back at the top of its loop
C17_Witness ==
    /\ pc = "loop"
    /\ Len(files_to_close) = 2
    /\ stdin_info = << <<"n">>, "r" >>
    /\ \E k \in 1..Len(out) :
          out[k].kind = "open_failed" /\ out[k].arg = <<"n">>
    /\ dispatched = "none"

\* C18: an entry of the resolver cache is never removed and never changed,
\* whatever happens to the file system and also when the launch of the
\* cached path fails because the file is gone, and every call of the
\* resolver for a name that has an entry returns the entry.
C18_CacheNeverInvalidated ==
    /\ [][\A n \in DOMAIN exec_cache :
             n \in DOMAIN exec_cache' /\ exec_cache'[n] = exec_cache[n]]_vars
    /\ [][(lookup' # lookup /\ lookup'.name \in DOMAIN exec_cache) =>
             (lookup'.cached /\ lookup'.path = exec_cache[lookup'.name])]_vars

\* x was cached as /b/x, /b/x was removed and /a/x installed, the launch
\* of the cached path has failed, and the entry is as it was
C18_Witness ==
    /\ dispatched = "launch_failed"
    /\ cmd_name = NameX
    /\ lookup.cached
    /\ exec_cache[NameX] = PathBX
    /\ KindOf(fs, PathBX) = "absent"
    /\ KindOf(fs, PathAX) = "xfile"

\* the name the current line is about, when the line is `type <name>` or
\* runs <name>, and the name is no builtin and not absolute
TypedName == cmd_name = TYPE /\ Len(args_clean) = 1 /\ dispatched = "builtin"

RanName == cmd_name \notin shell_builtins /\ dispatched \notin {"none", "interrupted"}

Searched(name) == name \notin shell_builtins /\ name # <<>> /\ name[1] # "/"

QuoteAfter(c, q) ==
    IF q = "" THEN IF c = "\\" THEN "\\" ELSE IF c \in Quotes THEN c ELSE ""
    ELSE IF q = "\\" THEN ""
    ELSE IF q = "\"\\" THEN "\""
    ELSE IF c = q THEN ""
    ELSE IF c = "\\" /\ q = "\"" THEN "\"\\"
    ELSE q

\* from position i of l on, with q open, a `>` or `<` stands outside
\* quotes and is not escaped by a backslash
RECURSIVE HasBareOperator(_, _, _)
HasBareOperator(l, i, q) ==
    /\ i <= Len(l)
    /\ \/ q = "" /\ l[i] \in {">", "<"}
       \/ HasBareOperator(l, i + 1, QuoteAfter(l[i], q))

\* C20: when every `>` and `<` of the line read stands inside quotes or
\* after a backslash, the line has no redirection: no stream has a spec,
\* no file name is reported missing, no file is opened, and the command
\* gets every argument of the line.
C20_QuotedOperatorsAreArguments ==
    (line # <<>> /\ ~HasBareOperator(line, 1, "")) =>
        /\ stdout_info = NoInfo
        /\ stderr_info = NoInfo
        /\ stdin_info = NoInfo
        /\ args_clean = args
        /\ ~HasPrinted("no_filename")
        /\ files_to_close = <<>>

====
